---- MODULE Spec2Model ----
(***************************************************************************)
(* Model of the seller inventory scrapers of this repository:              *)
(*   amazon_scraper.py           AmazonSellerScraper   ("basic")           *)
(*   enhanced_amazon_scraper.py  scan_seller_inventory ("enhanced")        *)
(* Both walk a fixed list of storefront URL variants page by page, merge   *)
(* the extracted products by asin, and share one JSON cache file per       *)
(* (seller_id, marketplace).                                               *)
(*                                                                         *)
(* Time is counted in units of 12 hours, so that the two freshness         *)
(* windows (24 h and 12 h) are the integers 2 and 1.                       *)
(***************************************************************************)
EXTENDS Integers, Sequences, FiniteSets, TLC

VARIABLES
    cache,          \* the cache directory: key -> content of <seller>_<marketplace>.json
    now,            \* the wall clock (time.time() / datetime.now())
    pc,             \* position of the running top-level get_seller_products call
    impl,           \* which module's get_seller_products is running
    key,            \* (seller_id, marketplace) of the running call
    force_refresh,  \* its force_refresh argument
    seller_name,    \* local seller_name of the scan
    variant,        \* index into urls_to_try / SELLER_URL_PATTERNS
    page,           \* local page
    phase,          \* enhanced: "base" (pages 1..7) or "extra" (pages 8..15)
    page_products,  \* basic: products of the current URL format
    count,          \* enhanced: pattern_products_count
    products,       \* basic: products; enhanced: all_products in insertion order
    result,         \* what the top-level call returns
    hist,           \* observations of the running call (not program state)
    use_proxy,      \* _make_request: its use_proxy argument
    proxies,        \* self.proxies: the number of proxies in the pool
    current_proxy_index,    \* self.current_proxy_index
    attempt,        \* _make_request / make_request: turns of the retry loop begun
    response,       \* what the fetch call returns: "pending" while it runs
    statuses,       \* the outcomes of the HTTP attempts of the fetch call, in order
    sleeps,         \* the time.sleep after each of those attempts (0: none), in order
    handed,         \* what get_next_proxy returned, call after call, for one scraper object
    file,           \* one cache file on disk, in blocks as the writers flush them
    writers,        \* the _save_to_cache / save_to_cache calls writing that file
    soup,           \* one parsed page: what soup.select returns for each selector, in list order
    extracted       \* the records extracted from that page, once the extraction ran

vars == << cache, now, pc, impl, key, force_refresh, seller_name, variant, page,
           phase, page_products, count, products, result, hist,
           use_proxy, proxies, current_proxy_index, attempt, response, statuses,
           sleeps, handed, file, writers, soup, extracted >>

scanVars == << seller_name, variant, page, phase, page_products, count, products >>

fetchVars == << use_proxy, proxies, current_proxy_index, attempt, response, statuses,
               sleeps, handed >>

putVars == << file, writers >>

extractVars == << soup, extracted >>

callVars == << cache, now, pc, impl, key, force_refresh, scanVars, result, hist >>

(***************************************************************************)
(* Bounds of the model.  The variant lists and page ceilings of the code   *)
(* (14 and 15 variants; 100, 7 and 15 pages; threshold 100) are scaled     *)
(* down to these.                                                          *)
(***************************************************************************)
MaxTime == 3
NumVariants == 2
PageCeiling == 2
BasePages == 2
ExtraPages == 1
Threshold == 2

\* Program constants, in units of 12 hours.
CacheWindowBasic == 2
CacheWindowEnhanced == 1
DefaultCacheTime == 0

\* The clock reads of the program are far later than the epoch and than
\* 2000-01-01: later than any freshness window.
ClockStart == CacheWindowBasic + CacheWindowEnhanced + 1

Impls == {"basic", "enhanced"}
Keys == { <<"S1", "co.uk">> }

\* The keys of the scenarios with several sellers and marketplaces.
AllKeys == { <<"S1", "co.uk">>, <<"S1", "com">>, <<"S2", "co.uk">> }

\* CachePath without the marketplace.
CachePathSellerOnly(k) == k[1] \o ".json"

\* _get_cache_path / get_cache_path: the file name within CACHE_DIR
CachePath(k) == k[1] \o "_" \o k[2] \o ".json"

Paths(ks) == { CachePath(k) : k \in ks }

Missing == "<missing>"
UnknownSeller == "Unknown Seller"
UnknownTitle == "Unknown Title"

\* An "asin" that is a JSON array or object: extract_products_from_search_page
\* takes it from data-component-props when the element has no data-asin.
Unhashable == "<unhashable>"

(***************************************************************************)
(* URLs.  A URL is kept as the parts it is formatted from.                 *)
(***************************************************************************)
\* The URL format of urls_to_try that carries "&qid={int(time.time())}" (the
\* ninth of fourteen in the code).
QidVariant == NumVariants

\* BaseUrlBasic with the qid on every URL format.
BaseUrlBasicAllStamped(k, v, t) ==
    [format |-> v, seller_id |-> k[1], marketplace |-> k[2], qid |-> <<t>>]

\* amazon_scraper.py: urls_to_try[v], built when the clock reads t
BaseUrlBasic(k, v, t) ==
    [format |-> v, seller_id |-> k[1], marketplace |-> k[2],
     qid |-> IF v = QidVariant THEN <<t>> ELSE <<>>]

\* enhanced_amazon_scraper.py: SELLER_URL_PATTERNS[v] with seller_id and
\* marketplace filled in
UrlPatternEnhanced(k, v) ==
    [format |-> v, seller_id |-> k[1], marketplace |-> k[2], qid |-> <<>>]

\* The URL requested for page p of variant v by a scan of key k that began
\* when the clock read t.
UrlOf(i, k, v, p, t) ==
    [base |-> IF i = "basic" THEN BaseUrlBasic(k, v, t) ELSE UrlPatternEnhanced(k, v),
     page |-> p]

(***************************************************************************)
(* Pages.  An element is one markup node matched by the first selector     *)
(* strategy that matches anything on the page.                             *)
(***************************************************************************)
Elem(a, t, p, s) == [asin |-> a, title |-> t, price |-> p, sponsored |-> s]

E1  == Elem("B000000001", "T1", "1.00", FALSE)
E1b == Elem("B000000001", "T2", Missing, FALSE)
E2  == Elem("B000000002", "T1", "2.00", FALSE)
E2s == Elem("B000000002", "T2", "2.00", TRUE)
Ex  == Elem("B01", "T1", Missing, FALSE)
En  == Elem("B000000001", Missing, "1.00", FALSE)
Eu  == Elem(Unhashable, "T1", Missing, FALSE)

Page(es, n, inv, br) == [elems |-> es, next |-> n, invalid |-> inv, broken |-> br]

AllPages ==
    { Page(<<E1, E2>>, TRUE, FALSE, FALSE),
      Page(<<E2, E1b>>, FALSE, FALSE, FALSE),
      Page(<<E1, E1b>>, TRUE, FALSE, FALSE),
      Page(<<E2s, E1b>>, TRUE, FALSE, FALSE),
      Page(<<Ex, En>>, TRUE, FALSE, FALSE),
      Page(<<Eu>>, TRUE, FALSE, FALSE),
      Page(<<>>, TRUE, FALSE, FALSE),
      Page(<<E2>>, TRUE, TRUE, FALSE),
      Page(<<E1>>, TRUE, FALSE, TRUE) }

NoResponse == [elems |-> <<>>, next |-> FALSE, invalid |-> FALSE, broken |-> FALSE,
               status |-> "none"]
Response(p) == [elems |-> p.elems, next |-> p.next, invalid |-> p.invalid,
                broken |-> p.broken, status |-> "ok"]

\* What one _make_request / make_request call can return.
FetchOutcomes(pages) == {NoResponse} \cup { Response(p) : p \in pages }


(***************************************************************************)
(* The cache file.  Its content is a JSON document; the model keeps what   *)
(* the readers look at: whether it parses to an object, the type and value *)
(* of "timestamp", and "products".                                         *)
(*   kind      "absent" (no file), "corrupt" (unreadable, unparseable or   *)
(*             not a JSON object), "snap" (a JSON object)                  *)
(*   ts_kind   "epoch" (a number, as time.time() writes), "iso" (a string, *)
(*             as datetime.isoformat() writes), "missing" (no such field)  *)
(*   p_kind    "list", "null" (products is not a list), "missing"          *)
(***************************************************************************)
Entry(k, sid, n, pk, ps, tk, t) ==
    [kind |-> k, seller_id |-> sid, seller_name |-> n, p_kind |-> pk, products |-> ps,
     ts_kind |-> tk, ts |-> t]

Absent  == Entry("absent", Missing, Missing, "missing", <<>>, "missing", 0)
Corrupt == Entry("corrupt", Missing, Missing, "missing", <<>>, "missing", 0)
None    == Entry("none", Missing, Missing, "missing", <<>>, "missing", 0)

\* _get_from_cache with "<=" for "<".
GetFromCacheBasicInclusive(entry, t) ==
    IF entry.kind \in {"absent", "corrupt"} \/ entry.ts_kind = "iso" THEN None
    ELSE IF t - (IF entry.ts_kind = "missing" THEN DefaultCacheTime ELSE entry.ts)
               <= CacheWindowBasic
         THEN entry
    ELSE None

\* AmazonSellerScraper._get_from_cache
GetFromCacheBasic(entry, t) ==
    IF entry.kind = "absent" THEN None                     \* os.path.exists is false
    ELSE IF entry.kind = "corrupt" THEN None               \* json.load / .get raises
    ELSE LET cache_time == IF entry.ts_kind = "missing" THEN DefaultCacheTime
                           ELSE entry.ts
         IN  IF entry.ts_kind = "iso" THEN None            \* float - str raises
             ELSE IF t - cache_time < CacheWindowBasic THEN entry
             ELSE None

\* get_from_cache taking an epoch stamp for a time it can compare.
GetFromCacheEnhancedReadsEpoch(entry, t) ==
    IF entry.kind \in {"absent", "corrupt"} THEN None
    ELSE LET cache_time == IF entry.ts_kind = "missing" THEN DefaultCacheTime
                           ELSE entry.ts
         IN  IF t - cache_time > CacheWindowEnhanced THEN None ELSE entry

\* enhanced_amazon_scraper.get_from_cache
GetFromCacheEnhanced(entry, t) ==
    IF entry.kind = "absent" THEN None
    ELSE IF entry.kind = "corrupt" THEN None
    ELSE LET cache_time == IF entry.ts_kind = "missing" THEN DefaultCacheTime
                           ELSE entry.ts
         IN  IF entry.ts_kind = "epoch" THEN None          \* fromisoformat(float) raises
             ELSE IF t - cache_time > CacheWindowEnhanced THEN None
             ELSE entry

GetFromCache(i, entry, t) ==
    IF i = "basic" THEN GetFromCacheBasic(entry, t) ELSE GetFromCacheEnhanced(entry, t)

\* The outcomes of writing the file: written, open() failed (file untouched),
\* json.dump failed after open() truncated the file.
IoOutcomes == {"ok", "open_fails", "dump_fails"}

\* _save_to_cache opening the file with mode "x": an existing file is kept.
SaveToCacheBasicExclusive(old, data, t, io) ==
    IF io = "ok"
    THEN IF old.kind = "absent" THEN [data EXCEPT !.ts_kind = "epoch", !.ts = t] ELSE old
    ELSE IF io = "open_fails" THEN old
    ELSE Corrupt

\* AmazonSellerScraper._save_to_cache: the new content of the file
SaveToCacheBasic(old, data, t, io) ==
    LET stamped == [data EXCEPT !.ts_kind = "epoch", !.ts = t]
    IN  IF io = "ok" THEN stamped
        ELSE IF io = "open_fails" THEN old
        ELSE Corrupt

\* save_to_cache stamping only a snapshot that carries no timestamp.
SaveToCacheEnhancedKeepsStamp(old, data, t, io) ==
    IF io = "ok"
    THEN IF data.ts_kind = "missing" THEN [data EXCEPT !.ts_kind = "iso", !.ts = t]
         ELSE data
    ELSE IF io = "open_fails" THEN old
    ELSE Corrupt

\* enhanced_amazon_scraper.save_to_cache: the new content of the file
SaveToCacheEnhanced(old, data, t, io) ==
    LET stamped == [data EXCEPT !.ts_kind = "iso", !.ts = t]
    IN  IF io = "ok" THEN stamped
        ELSE IF io = "open_fails" THEN old
        ELSE Corrupt

SaveToCache(i, old, data, t, io) ==
    IF i = "basic" THEN SaveToCacheBasic(old, data, t, io)
    ELSE SaveToCacheEnhanced(old, data, t, io)

(***************************************************************************)
(* Extraction                                                              *)
(***************************************************************************)
Product(a, t, p, n) == [asin |-> a, title |-> t, price |-> p, seller_name |-> n]

HasAsin(seq, a) == \E j \in 1..Len(seq) : seq[j].asin = a

Range(seq) == { seq[j] : j \in 1..Len(seq) }

\* amazon_scraper.py, the body of "for element in product_elements"
RECURSIVE ProcessElementsBasic(_, _, _)
ProcessElementsBasic(elems, pp, name) ==
    IF elems = <<>> THEN pp
    ELSE LET e == Head(elems)
             rest == Tail(elems)
         IN  IF e.asin = "" \/ Len(e.asin) # 10
                 THEN ProcessElementsBasic(rest, pp, name)
             ELSE IF e.title = Missing \/ e.title = ""
                 THEN ProcessElementsBasic(rest, pp, name)
             ELSE IF HasAsin(pp, e.asin)
                 THEN ProcessElementsBasic(rest, pp, name)
             ELSE ProcessElementsBasic(rest,
                      Append(pp, Product(e.asin, e.title, e.price, name)), name)

\* MergeUnique without the "not any(p['asin'] == ...)" test.
RECURSIVE MergeAll(_, _)
MergeAll(prods, pp) ==
    IF pp = <<>> THEN prods ELSE MergeAll(Append(prods, Head(pp)), Tail(pp))

\* amazon_scraper.py, "Add unique products from this URL format"
RECURSIVE MergeUnique(_, _)
MergeUnique(prods, pp) ==
    IF pp = <<>> THEN prods
    ELSE IF HasAsin(prods, Head(pp).asin) THEN MergeUnique(prods, Tail(pp))
    ELSE MergeUnique(Append(prods, Head(pp)), Tail(pp))

\* enhanced_amazon_scraper.extract_products_from_search_page
RECURSIVE ExtractElements(_)
ExtractElements(elems) ==
    IF elems = <<>> THEN <<>>
    ELSE LET e == Head(elems)
             rest == ExtractElements(Tail(elems))
         IN  IF e.sponsored THEN rest
             ELSE IF e.asin = "" THEN rest
             ELSE << Product(e.asin,
                             IF e.title = Missing THEN UnknownTitle ELSE e.title,
                             e.price, Missing) >> \o rest

ExtractProductsFromSearchPage(resp) ==
    IF resp.broken THEN <<>> ELSE ExtractElements(resp.elems)

\* AddNewProducts assigning all_products[asin] without the "not in" test: the
\* last record met for an asin takes the place of the first.
RECURSIVE AddOverwriting(_, _)
AddOverwriting(all, pp) ==
    IF pp = <<>> THEN all
    ELSE LET r == Head(pp)
             put == IF HasAsin(all, r.asin)
                    THEN [ j \in 1..Len(all) |-> IF all[j].asin = r.asin THEN r ELSE all[j] ]
                    ELSE Append(all, r)
         IN  AddOverwriting(put, Tail(pp))

\* enhanced_amazon_scraper.py, "Add new products"
RECURSIVE AddNewProducts(_, _)
AddNewProducts(all, pp) ==
    IF pp = <<>> THEN all
    ELSE IF HasAsin(all, Head(pp).asin) THEN AddNewProducts(all, Tail(pp))
    ELSE AddNewProducts(Append(all, Head(pp)), Tail(pp))


(***************************************************************************)
(* Observations.  hist records what a call did, for the properties below;  *)
(* no action reads it.                                                     *)
(***************************************************************************)
NoKey == << Missing, Missing >>

\* More fetch calls than any scan makes: the fetch counters of hist stop here.
FetchCap ==
    2 + NumVariants * (IF PageCeiling > BasePages + ExtraPages THEN PageCeiling
                       ELSE BasePages + ExtraPages)

Up(n, d) == IF n + d > FetchCap THEN FetchCap ELSE n + d

NoPut == [valid |-> FALSE, impl |-> Missing, key |-> NoKey, at |-> 0, data |-> None]

FreshHist(lp) ==
    [ get_called |-> FALSE,    \* the call read the cache
      start_at   |-> 0,        \* clock when the call began (and read the cache)
      get_res    |-> None,     \* what the read returned
      cache0     |-> None,     \* the file when the call began
      fetches    |-> 0,        \* HTTP fetch calls made by the call
      ok_fetches |-> 0,        \* those that returned a response
      walked     |-> FALSE,    \* the walker ran
      caught     |-> FALSE,    \* the scan raised and the top-level call caught it
      escaped    |-> FALSE,    \* an exception left the top-level call
      first      |-> {},       \* first record met for each asin, in walk order
      conflict   |-> FALSE,    \* a record was met whose asin had been met with other data
      put        |-> "none",   \* outcome of the call's cache write
      put_at     |-> 0,        \* clock at that write
      last_put   |-> lp ]      \* the last completed write to the cache

\* The records a page hands to the merge, in element order.
RecordsOf(i, resp, name) ==
    IF i = "enhanced"
    THEN IF resp.status = "none" THEN <<>> ELSE ExtractProductsFromSearchPage(resp)
    ELSE IF resp.status = "none" \/ resp.invalid \/ resp.broken THEN <<>>
    ELSE LET ok == SelectSeq(resp.elems,
                       LAMBDA e : Len(e.asin) = 10 /\ e.title \notin {Missing, ""})
         IN  [ j \in 1..Len(ok) |-> Product(ok[j].asin, ok[j].title, ok[j].price, name) ]

\* A record of recs repeats an asin met before, with another title or price.
Conflicts(first, recs) ==
    \E n \in 1..Len(recs) :
        \/ \E r \in first : r.asin = recs[n].asin /\ r # recs[n]
        \/ \E m \in 1..(n - 1) : recs[m].asin = recs[n].asin /\ recs[m] # recs[n]

SeenFirst(first, recs) ==
    first \cup { recs[j] : j \in { n \in 1..Len(recs) :
                     /\ \A r \in first : r.asin # recs[n].asin
                     /\ \A m \in 1..(n - 1) : recs[m].asin # recs[n].asin } }

(***************************************************************************)
(* The top-level calls                                                     *)
(***************************************************************************)
\* CacheDecision that never serves from the cache.
CacheDecisionNeverServes(i, got) ==
    [ served |-> FALSE, raises |-> FALSE, products |-> <<>> ]

\* What the scan does with the value the cache read returned:
\* amazon_scraper.py 291-295, enhanced_amazon_scraper.py 267-273.
CacheDecision(i, got) ==
    LET served == IF i = "basic" THEN got # None
                  ELSE got # None /\ got.p_kind # "missing"
    IN  [ served   |-> served,
          raises   |-> served /\ got.p_kind = "null",        \* len(None)
          products |-> IF served /\ got.p_kind = "list" THEN got.products ELSE <<>> ]

\* CacheLookup without the force_refresh test.
CacheLookupAlways(i, f, entry, t) == GetFromCache(i, entry, t)

\* "if not force_refresh: cache_data = get_from_cache(...)"
CacheLookup(i, f, entry, t) == IF f THEN None ELSE GetFromCache(i, entry, t)

\* The module-level get_seller_products without its try/except.
TopLevelNoCatch(raised, value) ==
    [ result |-> value, escaped |-> raised ]

\* The try/except of the module-level get_seller_products: what the caller
\* gets when the scan raised.
TopLevelCatch(raised, value) ==
    [ result |-> IF raised THEN <<>> ELSE value, escaped |-> FALSE ]

\* No fetch call is running.
FetchIdle ==
    /\ use_proxy = TRUE
    /\ proxies = 0
    /\ current_proxy_index = 0
    /\ attempt = 0
    /\ response = "pending"
    /\ statuses = <<>>
    /\ sleeps = <<>>
    /\ handed = <<>>

\* No extraction is running.
NotExtracted == [done |-> FALSE, records |-> <<>>]

ExtractIdle ==
    /\ soup = <<>>
    /\ extracted = NotExtracted

\* No cache write is running.
PutIdle ==
    /\ file = <<>>
    /\ writers = <<>>

\* The locals of a call of module i that has not begun.
CallIdle(i) ==
    /\ pc = "idle"
    /\ impl = i
    /\ key = CHOOSE k \in Keys : TRUE
    /\ force_refresh = FALSE
    /\ seller_name = Missing
    /\ variant = 1
    /\ page = 1
    /\ phase = "base"
    /\ page_products = <<>>
    /\ count = 0
    /\ products = <<>>
    /\ result = <<>>
    /\ hist = FreshHist(NoPut)

\* The process before its first call.
Idle == CallIdle("basic") /\ FetchIdle /\ PutIdle /\ ExtractIdle

\* Cache files an earlier run of either module left behind.
EarlierEntries ==
    { Absent,
      Entry("snap", "S1", "Seller", "list",
            <<Product("B000000002", "T2", "2.00", "Seller")>>, "epoch", ClockStart),
      Entry("snap", "S1", UnknownSeller, "list",
            <<Product("B000000002", "T2", "2.00", Missing)>>, "iso", ClockStart) }

\* One call of get_seller_products in a process, over what earlier runs left.
Init ==
    /\ cache \in [Paths(Keys) -> EarlierEntries]
    /\ now = ClockStart
    /\ Idle

\* A long-lived host process, starting with an empty cache directory.
InitCache ==
    /\ cache = [f \in Paths(Keys) |-> Absent]
    /\ now = ClockStart
    /\ Idle

\* get_seller_products(seller_id, marketplace, force_refresh) is called; the
\* call runs up to the cache decision.
StartScan(i, k, f) ==
    /\ pc = "idle"
    /\ LET got == CacheLookup(i, f, cache[CachePath(k)], now)
           d   == CacheDecision(i, got)
           top == TopLevelCatch(d.raises, d.products)
           h   == [ FreshHist(hist.last_put) EXCEPT
                      !.get_called = ~f, !.start_at = now, !.get_res = got,
                      !.cache0 = cache[CachePath(k)], !.caught = d.raises,
                      !.escaped = d.raises /\ top.escaped ]
       IN  /\ impl' = i
           /\ key' = k
           /\ force_refresh' = f
           /\ hist' = h
           /\ IF d.served
              THEN /\ pc' = "done"
                   /\ result' = top.result
              ELSE /\ pc' = "name"
                   /\ result' = <<>>
    /\ UNCHANGED << cache, now, scanVars >>
    /\ UNCHANGED << fetchVars, putVars, extractVars >>

\* get_seller_name: the name found (or none), the fetch calls it made and how
\* many of them returned a response.
NameOutcomes(i) ==
    IF i = "basic"
    THEN { [name |-> "Seller", calls |-> 1, ok |-> 1],     \* trafilatura finds the title
           [name |-> "Seller", calls |-> 2, ok |-> 1],     \* _make_request page has a name
           [name |-> "Seller", calls |-> 2, ok |-> 2],
           [name |-> Missing,  calls |-> 2, ok |-> 2],
           [name |-> Missing,  calls |-> 2, ok |-> 1],
           [name |-> Missing,  calls |-> 2, ok |-> 0] }
    ELSE { [name |-> "Seller", calls |-> 1, ok |-> 1],
           [name |-> Missing,  calls |-> 1, ok |-> 1],
           [name |-> Missing,  calls |-> 1, ok |-> 0] }

\* seller_name = get_seller_name(seller_id) or "Unknown Seller"
ResolveName(o) ==
    /\ pc = "name"
    /\ seller_name' = IF o.name = Missing THEN UnknownSeller ELSE o.name
    /\ variant' = 1
    /\ page' = 1
    /\ phase' = "base"
    /\ page_products' = <<>>
    /\ count' = 0
    /\ products' = <<>>
    /\ pc' = "walk"
    /\ hist' = [hist EXCEPT !.fetches = Up(@, o.calls), !.ok_fetches = Up(@, o.ok),
                            !.walked = TRUE]
    /\ UNCHANGED << cache, now, impl, key, force_refresh, result >>
    /\ UNCHANGED << fetchVars, putVars, extractVars >>


\* NextVariant starting the same URL format again.
NextVariantRepeats ==
    /\ variant' = variant
    /\ page' = 1
    /\ phase' = "base"
    /\ page_products' = <<>>
    /\ count' = 0
    /\ pc' = "walk"

\* The scan moves on to the next URL format, or to the cache write after the
\* last one.
NextVariant ==
    /\ variant' = variant + 1
    /\ page' = 1
    /\ phase' = "base"
    /\ page_products' = <<>>
    /\ count' = 0
    /\ pc' = IF variant = NumVariants THEN "store" ELSE "walk"

\* enhanced_amazon_scraper.py: "product['asin'] not in all_products" raises
\* TypeError on an asin that cannot be hashed; nothing in scan_seller_inventory
\* catches it.
ScanRaises(i, resp) ==
    /\ i = "enhanced"
    /\ resp.status = "ok"
    /\ \E r \in Range(ExtractProductsFromSearchPage(resp)) : r.asin = Unhashable

Observe(resp) ==
    hist' = [hist EXCEPT
               !.caught = @ \/ ScanRaises(impl, resp),
               !.escaped = @ \/ (ScanRaises(impl, resp) /\ TopLevelCatch(TRUE, <<>>).escaped),
               !.fetches = Up(@, 1),
               !.ok_fetches = Up(@, IF resp.status = "ok" THEN 1 ELSE 0),
               !.conflict = @ \/ Conflicts(hist.first, RecordsOf(impl, resp, seller_name)),
               !.first = SeenFirst(@, RecordsOf(impl, resp, seller_name))]

\* amazon_scraper.py: the turn ends the walk of the URL format early.
StopsBasic(resp) ==
    \/ resp.status = "none"          \* not response: break
    \/ resp.invalid                  \* "Sorry! We couldn't find that page": break
    \/ resp.broken                   \* except: more_pages = False
    \/ resp.elems = <<>>             \* not found_products: break

\* MorePagesBasic with "continue" for "break" on a failed fetch.
MorePagesBasicAfterFailure(resp) ==
    resp.status = "none" \/ (~StopsBasic(resp) /\ resp.next)

\* amazon_scraper.py: the loop goes on to the next page (an enabled next button).
MorePagesBasic(resp) == ~StopsBasic(resp) /\ resp.next

\* amazon_scraper.py: "page <= 100" of the while condition.
WithinCeilingBasic(p) == p <= PageCeiling

\* amazon_scraper.py: one turn of "while more_pages and page <= 100", and what
\* follows the loop when the turn ends it.
WalkBasic(resp) ==
    /\ pc = "walk"
    /\ impl = "basic"
    /\ LET pp   == IF StopsBasic(resp) THEN page_products
                   ELSE ProcessElementsBasic(resp.elems, page_products, seller_name)
           more == MorePagesBasic(resp)
           p1   == IF more THEN page + 1 ELSE page
       IN  IF more /\ WithinCeilingBasic(p1)
           THEN /\ page_products' = pp
                /\ page' = p1
                /\ UNCHANGED << pc, variant, phase, count, products >>
           ELSE /\ products' = MergeUnique(products, pp)
                /\ NextVariant
    /\ Observe(resp)
    /\ UNCHANGED << cache, now, impl, key, force_refresh, seller_name, result >>
    /\ UNCHANGED << fetchVars, putVars, extractVars >>

\* LastPageEnhanced with the extra pages running one page further.
LastPageEnhancedLoose(ph) ==
    IF ph = "base" THEN BasePages ELSE BasePages + ExtraPages + 1

\* enhanced_amazon_scraper.py: the last page of range(1, 8) and of range(8, 16).
LastPageEnhanced(ph) ==
    IF ph = "base" THEN BasePages ELSE BasePages + ExtraPages

\* enhanced_amazon_scraper.py: one turn of "for page in range(1, 8)" or of
\* "for page in range(8, 16)", and what follows the loop when the turn ends it.
WalkEnhanced(resp) ==
    /\ pc = "walk"
    /\ impl = "enhanced"
    /\ LET pp     == IF resp.status = "none" THEN <<>>
                     ELSE ExtractProductsFromSearchPage(resp)
           stop   == resp.status = "none" \/ pp = <<>>
           count1 == IF stop \/ phase = "extra" THEN count ELSE count + Len(pp)
           last   == page = LastPageEnhanced(phase)
       IN  /\ products' = IF stop \/ ScanRaises(impl, resp) THEN products
                           ELSE AddNewProducts(products, pp)
           /\ IF ScanRaises(impl, resp)
              THEN /\ pc' = "done"
                   /\ result' = TopLevelCatch(TRUE, products).result
                   /\ UNCHANGED << variant, page, phase, page_products, count >>
              ELSE IF ~stop /\ ~last
              THEN /\ page' = page + 1
                   /\ count' = count1
                   /\ UNCHANGED << pc, variant, phase, page_products, result >>
              ELSE IF phase = "base" /\ count1 >= Threshold
              THEN /\ phase' = "extra"
                   /\ page' = BasePages + 1
                   /\ count' = count1
                   /\ UNCHANGED << pc, variant, page_products, result >>
              ELSE NextVariant /\ UNCHANGED result
    /\ Observe(resp)
    /\ UNCHANGED << cache, now, impl, key, force_refresh, seller_name >>
    /\ UNCHANGED << fetchVars, putVars, extractVars >>

\* The snapshot handed to the cache write (no "timestamp" field yet).
SnapshotData == Entry("snap", key[1], seller_name, "list", products, "missing", 0)

\* Saves with the write of amazon_scraper.py unguarded.
SavesAlways(i, prods) == TRUE

\* basic: "if products:" guards the write; enhanced writes always.
Saves(i, prods) == i = "enhanced" \/ prods # <<>>

\* The end of the scan: the cache write and the return.
Store(io) ==
    /\ pc = "store"
    /\ LET top == TopLevelCatch(FALSE, products)
       IN  /\ result' = top.result
           /\ IF Saves(impl, products)
              THEN /\ cache' = [cache EXCEPT ![CachePath(key)] =
                                   SaveToCache(impl, cache[CachePath(key)], SnapshotData, now, io)]
                   /\ hist' = [hist EXCEPT
                                 !.put = io, !.put_at = now,
                                 !.last_put = IF io = "ok"
                                              THEN [valid |-> TRUE, impl |-> impl,
                                                    key |-> key, at |-> now,
                                                    data |-> SnapshotData]
                                              ELSE IF io = "dump_fails" /\ @.key = key
                                              THEN NoPut
                                              ELSE @ ]
              ELSE /\ io = "ok"
                   /\ UNCHANGED << cache, hist >>
    /\ pc' = "done"
    /\ UNCHANGED << now, impl, key, force_refresh, scanVars >>
    /\ UNCHANGED << fetchVars, putVars, extractVars >>

\* The caller takes the result; the next call can begin.
Return ==
    /\ pc = "done"
    /\ pc' = "idle"
    /\ seller_name' = Missing
    /\ variant' = 1
    /\ page' = 1
    /\ phase' = "base"
    /\ page_products' = <<>>
    /\ count' = 0
    /\ products' = <<>>
    /\ result' = <<>>
    /\ hist' = FreshHist(hist.last_put)
    /\ UNCHANGED << cache, now, impl, key, force_refresh >>
    /\ UNCHANGED << fetchVars, putVars, extractVars >>

\* Time passes.  The walk reads no clock (only the cache read and the cache
\* write do), so the time a walk takes is let pass when the walk has ended.
Tick ==
    /\ pc \in {"idle", "store"}
    /\ now < ClockStart + MaxTime
    /\ now' = now + 1
    /\ UNCHANGED << cache, pc, impl, key, force_refresh, scanVars, result, hist >>
    /\ UNCHANGED << fetchVars, putVars, extractVars >>

\* Cache files that were not written by a completed cache write.
DamagedEntries(t) ==
    { Corrupt,
      Entry("snap", "S1", "Seller", "list",
            <<Product("B000000001", "T1", "1.00", "Seller")>>, "missing", 0),
      Entry("snap", "S1", "Seller", "null", <<>>, "epoch", t),
      Entry("snap", "S1", "Seller", "null", <<>>, "iso", t),
      Entry("snap", "S1", "Seller", "missing", <<>>, "epoch", t),
      Entry("snap", "S1", "Seller", "missing", <<>>, "iso", t) }

\* Between two calls the file is damaged or replaced from outside.
Damage(k, e) ==
    /\ pc = "idle"
    /\ cache[CachePath(k)] # e
    /\ cache' = [cache EXCEPT ![CachePath(k)] = e]
    /\ hist' = [hist EXCEPT !.last_put = IF @.key = k THEN NoPut ELSE @]
    /\ UNCHANGED << now, pc, impl, key, force_refresh, scanVars, result >>
    /\ UNCHANGED << fetchVars, putVars, extractVars >>

\* The responses the storefront gives in the cache scenarios.
CachePages ==
    { Page(<<E1, E2>>, FALSE, FALSE, FALSE),
      Page(<<E1>>, TRUE, FALSE, TRUE) }

CacheNameOutcomes(i) == { o \in NameOutcomes(i) : o.ok = 0 \/ (o.calls = 1 /\ o.name # Missing) }

(***************************************************************************)
(* The fetch call: _make_request of amazon_scraper.py and make_request of  *)
(* enhanced_amazon_scraper.py, one HTTP attempt per step.                  *)
(***************************************************************************)
MaxRetriesBasic == 3
MaxRetriesEnhanced == 5

\* The proxies VERIFIED_PROXIES is configured with (none in the repository).
MaxProxies == 2

\* What one session.get can do: a response with status 200, 503, 403 or
\* another status, or a transport error (requests.RequestException).
HttpOutcomes == {"200", "503", "403", "other", "error"}

MaxRetries(i) == IF i = "basic" THEN MaxRetriesBasic ELSE MaxRetriesEnhanced

\* get_next_proxy without the wrap to the start of the pool.
GetNextProxyNoWrap(index, n) == IF n = 0 THEN index ELSE index + 1

\* get_next_proxy: the index after handing out a proxy of a pool of n
GetNextProxy(index, n) == IF n = 0 THEN index ELSE (index + 1) % n

\* get_next_proxy returning None: a direct connection.
NoProxy == -1

\* get_next_proxy: the position in the pool of the proxy it returns
ProxyOf(index, n) == IF n = 0 THEN NoProxy ELSE index

\* NextAttempt with a proxy swap after a 503 that is not counted.
NextAttemptFreeSwap(a, o, swap) == IF o = "503" /\ swap THEN a ELSE a + 1

\* "for attempt in range(max_retries)": the turns begun after a turn that got
\* o; "continue" after a 503 with a proxy pool starts the next turn like any
\* other outcome but 200.
NextAttempt(a, o, swap) == a + 1

\* What the call returns after a turn that got o, none once the turns are used up.
ReturnOf(i, a, o) ==
    IF o = "200" THEN "200"
    ELSE IF a >= MaxRetries(i) THEN "none"
    ELSE "pending"

\* self.retry_delay and the retry_delay parameter, in seconds
RetryDelayBasic == 2
RetryDelayEnhanced == 4

RetryDelay(i) == IF i = "basic" THEN RetryDelayBasic ELSE RetryDelayEnhanced

\* A sleep: the part computed from the attempt and the random part.
Sleep(b, j) == [backoff |-> b, jitter |-> j]

NoSleep == Sleep(0, 0)

\* AmazonSellerScraper._make_request: the sleep after the turn with loop
\* variable a that got o (swap: use_proxy and self.proxies).  The randomized
\* delay before every request is not a backoff and is left out.
BackoffBasic(a, o, swap) ==
    IF o = "200" THEN NoSleep
    ELSE IF o = "503" THEN (IF swap THEN NoSleep ELSE Sleep(RetryDelayBasic * (a + 1), 0))
    ELSE IF o = "403" THEN Sleep(RetryDelayBasic * 2 * (a + 1), 0)
    ELSE Sleep(RetryDelayBasic, 0)

\* enhanced_amazon_scraper.make_request: the random part of the sleep after a
\* turn that got o, as the whole seconds at the ends of its range:
\* random.uniform(1, 3), random.random() * retry_delay, random.random() * 2.
JitterEnhanced(o) ==
    IF o = "200" THEN {0}
    ELSE IF o = "503" THEN {1, 3}
    ELSE IF o = "error" THEN {0, 1}
    ELSE {0, RetryDelayEnhanced - 1}

\* enhanced_amazon_scraper.make_request: the sleep after the turn with loop
\* variable a that got o
BackoffEnhanced(a, o, j) ==
    IF o = "200" THEN NoSleep
    ELSE IF o = "503" THEN Sleep(RetryDelayEnhanced * (a + 1), j)
    ELSE Sleep(RetryDelayEnhanced, j)

\* AmazonSellerScraper._make_request: one turn of the retry loop
MakeRequestBasic(o) ==
    /\ impl = "basic"
    /\ response = "pending"
    /\ attempt < MaxRetriesBasic
    /\ current_proxy_index' = IF use_proxy THEN GetNextProxy(current_proxy_index, proxies)
                              ELSE current_proxy_index
    /\ handed' = IF use_proxy THEN Append(handed, ProxyOf(current_proxy_index, proxies))
                 ELSE handed
    /\ statuses' = Append(statuses, o)
    /\ sleeps' = Append(sleeps, BackoffBasic(attempt, o, use_proxy /\ proxies > 0))
    /\ attempt' = NextAttempt(attempt, o, use_proxy /\ proxies > 0)
    /\ response' = ReturnOf(impl, attempt', o)
    /\ UNCHANGED << use_proxy, proxies >>
    /\ UNCHANGED << callVars, putVars, extractVars >>

\* enhanced_amazon_scraper.make_request: one turn of the retry loop
MakeRequestEnhanced(o) ==
    /\ impl = "enhanced"
    /\ response = "pending"
    /\ attempt < MaxRetriesEnhanced
    /\ statuses' = Append(statuses, o)
    /\ \E j \in JitterEnhanced(o) : sleeps' = Append(sleeps, BackoffEnhanced(attempt, o, j))
    /\ attempt' = NextAttempt(attempt, o, FALSE)
    /\ response' = ReturnOf(impl, attempt', o)
    /\ UNCHANGED << use_proxy, proxies, current_proxy_index, handed >>
    /\ UNCHANGED << callVars, putVars, extractVars >>

\* The get_next_proxy calls followed on one scraper object.
MaxHanded == 6

\* The scraper object makes its next _make_request call (get_seller_name and
\* every page of the walk call it on the same object).
NextRequest(up) ==
    /\ impl = "basic"
    /\ response # "pending"
    /\ Len(handed) + MaxRetriesBasic <= MaxHanded
    /\ use_proxy' = up
    /\ attempt' = 0
    /\ response' = "pending"
    /\ statuses' = <<>>
    /\ sleeps' = <<>>
    /\ UNCHANGED << proxies, current_proxy_index, handed >>
    /\ UNCHANGED << callVars, putVars, extractVars >>

\* The fetch calls of either module, with or without a proxy pool.
InitFetch ==
    /\ cache = [f \in Paths(Keys) |-> Absent]
    /\ now = ClockStart
    /\ \E i \in Impls : CallIdle(i)
    /\ PutIdle
    /\ ExtractIdle
    /\ use_proxy \in BOOLEAN
    /\ proxies \in 0..MaxProxies
    /\ impl = "enhanced" => use_proxy = FALSE /\ proxies = 0
    /\ current_proxy_index = 0
    /\ attempt = 0
    /\ response = "pending"
    /\ statuses = <<>>
    /\ sleeps = <<>>
    /\ handed = <<>>

NextFetch ==
    \/ \E o \in HttpOutcomes : MakeRequestBasic(o)
    \/ \E o \in HttpOutcomes : MakeRequestEnhanced(o)
    \/ \E up \in BOOLEAN : NextRequest(up)

SpecFetch == InitFetch /\ [][NextFetch]_vars

(***************************************************************************)
(* Cache writes of several processes to one file.  _save_to_cache and      *)
(* save_to_cache open the file with mode "w" (which empties it) and        *)
(* json.dump into it; the buffered file reaches the disk block by block,   *)
(* each process at its own file offset.  Neither module takes a lock or    *)
(* writes to a temporary file.                                             *)
(***************************************************************************)
Writers == {"w1", "w2"}

\* The blocks of the longest document.
MaxBlocks == 2

Block(w, n) == [writer |-> w, block |-> n]

\* A stretch of the file no process has written (it reads as NUL bytes).
Hole == Block(Missing, 0)

\* The JSON document of writer w, n blocks long.
Document(w, n) == [ j \in 1..n |-> Block(w, j) ]

\* write(2) of block b at block offset pos of a file with content f
WriteAt(f, pos, b) ==
    IF pos <= Len(f) THEN [f EXCEPT ![pos] = b]
    ELSE f \o [ j \in 1..(pos - Len(f) - 1) |-> Hole ] \o << b >>

\* open(cache_path, 'w'): the content of the file after the open
Opened(f) == << >>

\* with open(cache_path, 'w') as f:
OpenFile(w) ==
    /\ writers[w].pc = "ready"
    /\ file' = Opened(file)
    /\ writers' = [writers EXCEPT ![w].pc = "open", ![w].offset = 0]
    /\ UNCHANGED << callVars, fetchVars, extractVars >>

\* json.dump(data, f): the next block of the document reaches the file
DumpBlock(w) ==
    /\ writers[w].pc = "open"
    /\ writers[w].offset < Len(writers[w].doc)
    /\ file' = WriteAt(file, writers[w].offset + 1, writers[w].doc[writers[w].offset + 1])
    /\ writers' = [writers EXCEPT ![w].offset = @ + 1]
    /\ UNCHANGED << callVars, fetchVars, extractVars >>

\* the end of the with block: the file is closed
CloseFile(w) ==
    /\ writers[w].pc = "open"
    /\ writers[w].offset = Len(writers[w].doc)
    /\ writers' = [writers EXCEPT ![w].pc = "closed"]
    /\ UNCHANGED << file, callVars, fetchVars, extractVars >>

\* Two scans of the same key, in two processes, have reached their cache write.
InitPut ==
    /\ cache = [f \in Paths(Keys) |-> Absent]
    /\ now = ClockStart
    /\ \E i \in Impls : CallIdle(i)
    /\ FetchIdle
    /\ ExtractIdle
    /\ file = << >>
    /\ \E len \in [Writers -> 1..MaxBlocks] :
          writers = [ w \in Writers |->
                        [pc |-> "ready", offset |-> 0, doc |-> Document(w, len[w])] ]

NextPut ==
    \/ \E w \in Writers : OpenFile(w)
    \/ \E w \in Writers : DumpBlock(w)
    \/ \E w \in Writers : CloseFile(w)

(***************************************************************************)
(* The selector strategies of one page.  soup.select is tried selector by  *)
(* selector (11 selectors in amazon_scraper.py, 5 in                       *)
(* enhanced_amazon_scraper.py); the elements of a page above are what the  *)
(* selector loop chose.                                                    *)
(***************************************************************************)
NumSelectors == 3

\* What one selector can match on a page.
Matches == { <<>>, <<E1>>, <<E2>>, <<E1, E2>>, <<En, E2s>> }

Soups == [1..NumSelectors -> Matches]

\* The selector loop taking the elements of every selector.
RECURSIVE AllMatching(_)
AllMatching(matches) ==
    IF matches = <<>> THEN <<>> ELSE Head(matches) \o AllMatching(Tail(matches))

\* "for selector in ...: elements = soup.select(selector); if elements: ...
\* break": the elements of the first selector that matches any
RECURSIVE FirstMatching(_)
FirstMatching(matches) ==
    IF matches = <<>> THEN <<>>
    ELSE IF Head(matches) # <<>> THEN Head(matches)
    ELSE FirstMatching(Tail(matches))

\* amazon_scraper.py: the selector loop of one page and the element loop in it
ExtractBasic ==
    /\ impl = "basic"
    /\ ~extracted.done
    /\ extracted' = [done |-> TRUE,
                     records |-> ProcessElementsBasic(FirstMatching(soup), <<>>, UnknownSeller)]
    /\ UNCHANGED soup
    /\ UNCHANGED << callVars, fetchVars, putVars >>

\* enhanced_amazon_scraper.extract_products_from_search_page
ExtractEnhanced ==
    /\ impl = "enhanced"
    /\ ~extracted.done
    /\ extracted' = [done |-> TRUE, records |-> ExtractElements(FirstMatching(soup))]
    /\ UNCHANGED soup
    /\ UNCHANGED << callVars, fetchVars, putVars >>

\* One page, parsed, handed to the extraction of either module.
InitExtract ==
    /\ cache = [f \in Paths(Keys) |-> Absent]
    /\ now = ClockStart
    /\ \E i \in Impls : CallIdle(i)
    /\ FetchIdle
    /\ PutIdle
    /\ soup \in Soups
    /\ extracted = NotExtracted

NextExtract ==
    \/ ExtractBasic
    \/ ExtractEnhanced

SpecExtract == InitExtract /\ [][NextExtract]_vars


SpecPut == InitPut /\ [][NextPut]_vars

Next ==
    \/ \E i \in Impls, k \in Keys, f \in BOOLEAN : StartScan(i, k, f)
    \/ \E o \in NameOutcomes(impl) : ResolveName(o)
    \/ \E r \in FetchOutcomes(AllPages) : WalkBasic(r)
    \/ \E r \in FetchOutcomes(AllPages) : WalkEnhanced(r)
    \/ \E io \in IoOutcomes : Store(io)

Spec == Init /\ [][Next]_vars

\* One page for each way a page can steer the walk: products with and without
\* an enabled next button, elements that are all rejected, no element, the
\* invalid-page marker, a page whose processing raises, an asin that cannot
\* be hashed.
LivePages ==
    { Page(<<E1, E2>>, TRUE, FALSE, FALSE),
      Page(<<E1, E2>>, FALSE, FALSE, FALSE),
      Page(<<Ex, En>>, TRUE, FALSE, FALSE),
      Page(<<>>, TRUE, FALSE, FALSE),
      Page(<<E2>>, TRUE, TRUE, FALSE),
      Page(<<E1>>, TRUE, FALSE, TRUE),
      Page(<<Eu>>, TRUE, FALSE, FALSE) }

\* One call over an empty cache directory.
NextLive ==
    \/ \E i \in Impls, k \in Keys, f \in BOOLEAN : StartScan(i, k, f)
    \/ \E o \in CacheNameOutcomes(impl) : ResolveName(o)
    \/ \E r \in FetchOutcomes(LivePages) : WalkBasic(r)
    \/ \E r \in FetchOutcomes(LivePages) : WalkEnhanced(r)
    \/ \E io \in IoOutcomes : Store(io)

\* The interpreter goes on executing a call that has a next step.
SpecLive == InitCache /\ [][NextLive]_vars /\ WF_vars(NextLive)

NextCache ==
    \/ \E i \in Impls, k \in Keys, f \in BOOLEAN : StartScan(i, k, f)
    \/ \E o \in CacheNameOutcomes(impl) : ResolveName(o)
    \/ \E r \in FetchOutcomes(CachePages) : WalkBasic(r)
    \/ \E r \in FetchOutcomes(CachePages) : WalkEnhanced(r)
    \/ \E io \in IoOutcomes : Store(io)
    \/ Return
    \/ Tick
    \/ \E k \in Keys, e \in DamagedEntries(now) : Damage(k, e)

SpecCache == InitCache /\ [][NextCache]_vars

\* One call for one of several keys, over what earlier runs left for each.
InitKeys ==
    /\ cache \in [Paths(AllKeys) -> EarlierEntries]
    /\ now = ClockStart
    /\ Idle

NextKeys ==
    \/ \E i \in Impls, k \in AllKeys, f \in BOOLEAN : StartScan(i, k, f)
    \/ \E o \in CacheNameOutcomes(impl) : ResolveName(o)
    \/ \E r \in FetchOutcomes(CachePages) : WalkBasic(r)
    \/ \E r \in FetchOutcomes(CachePages) : WalkEnhanced(r)
    \/ \E io \in IoOutcomes : Store(io)

SpecKeys == InitKeys /\ [][NextKeys]_vars


(***************************************************************************)
(* Properties                                                              *)
(***************************************************************************)
NoDuplicateAsin(seq) ==
    \A a, b \in 1..Len(seq) : a # b => seq[a].asin # seq[b].asin

OwnStamp(i) == IF i = "basic" THEN "epoch" ELSE "iso"

Window(i) == IF i = "basic" THEN CacheWindowBasic ELSE CacheWindowEnhanced

\* The call has returned to its caller.
Returned == pc = "done"

\* C1: the product list a call returns, and the product list in every cache
\* file, hold no two records with the same asin.
C1_NoDuplicateIds ==
    /\ Returned => NoDuplicateAsin(result)
    /\ \A k \in Keys : cache[CachePath(k)].p_kind = "list" => NoDuplicateAsin(cache[CachePath(k)].products)

\* A scan that met an asin twice has returned two products and written them.
C1_Witness ==
    /\ Returned
    /\ hist.walked
    /\ hist.conflict
    /\ hist.put = "ok"
    /\ Len(result) = 2
    /\ cache[CachePath(key)].products = result

\* C2: when the walker has run to its end, the records returned are exactly the first
\* record met for each asin in walk order (variant, then page, then element):
\* a later record with the same asin changes neither title nor price.
C2_FirstSeenKept ==
    Returned /\ hist.walked /\ ~hist.caught => Range(result) = hist.first

\* A scan that met an asin again with another title or price has returned.
C2_Witness ==
    /\ Returned
    /\ hist.walked
    /\ hist.conflict
    /\ result # <<>>

\* The get reported a fresh, well-formed entry to a call without force_refresh.
CacheHit ==
    /\ hist.get_called
    /\ hist.get_res # None
    /\ hist.get_res.p_kind = "list"

\* C3: a call with force_refresh = false that finds a fresh entry returns the
\* entry's products, makes no fetch (no seller-name fetch, no variant fetch)
\* and leaves the cache file as it was.
C3_CacheHitFrame ==
    CacheHit =>
        /\ Returned
        /\ ~hist.walked
        /\ hist.fetches = 0
        /\ result = hist.cache0.products
        /\ cache[CachePath(key)] = hist.cache0

\* A call was answered from a fresh entry that holds products.
C3_Witness ==
    /\ CacheHit
    /\ Returned
    /\ result # <<>>

\* C4: no exception leaves the top-level get_seller_products, whatever the
\* fetches, the pages and the cache file do; a scan that raised, and a scan
\* all of whose fetches failed, return the empty sequence.
C4_TopLevelNeverRaises ==
    /\ ~hist.escaped
    /\ Returned /\ hist.caught => result = <<>>
    /\ Returned /\ hist.walked /\ hist.ok_fetches = 0 => result = <<>>

\* The scan raised (on a cache file whose products are not a list) and the
\* top-level call has returned.
C4_Witness ==
    /\ Returned
    /\ hist.caught
    /\ hist.cache0.p_kind = "null"

\* C5: with force_refresh = true the cache is not read and the walker runs
\* even over a fresh entry; a scan that found products writes them, and a
\* write that succeeds replaces the entry by the scan's result.
C5_ForceRefresh ==
    force_refresh /\ pc # "idle" =>
        /\ ~hist.get_called
        /\ Returned => hist.walked
        /\ Returned /\ result # <<>> =>
              /\ hist.put # "none"
              /\ hist.put = "ok" =>
                    /\ cache[CachePath(key)].kind = "snap"
                    /\ cache[CachePath(key)].products = result
                    /\ cache[CachePath(key)].seller_name = seller_name
                    /\ cache[CachePath(key)].ts = hist.put_at

\* A forced scan ran over an entry that was fresh for it and replaced it.
C5_Witness ==
    /\ Returned
    /\ force_refresh
    /\ hist.put = "ok"
    /\ GetFromCache(impl, hist.cache0, hist.start_at) # None
    /\ hist.cache0.p_kind = "list"
    /\ cache[CachePath(key)].products # hist.cache0.products

\* The age of the entry a call read, as its module computes it.
ReadAge ==
    hist.start_at - (IF hist.cache0.ts_kind = "missing" THEN DefaultCacheTime
                     ELSE hist.cache0.ts)

\* The entry a call read cannot be parsed by its module: no JSON object, or a
\* timestamp of the other module's type.
Unparseable ==
    \/ hist.cache0.kind = "corrupt"
    \/ hist.cache0.kind = "snap" /\ hist.cache0.ts_kind \notin {OwnStamp(impl), "missing"}

\* C6 as stated: get returns none exactly when there is no entry, it cannot be
\* parsed, or its age exceeds the window; up to and including an age equal to
\* the window it returns the entry.
C6_AsStated ==
    hist.get_called =>
        ( hist.get_res = None <=>
            \/ hist.cache0.kind = "absent"
            \/ Unparseable
            \/ ReadAge > Window(impl) )

\* C6 amended: as stated, but _get_from_cache of amazon_scraper.py returns
\* none already at an age equal to its window (it serves ages strictly below
\* 24 h); get_from_cache of enhanced_amazon_scraper.py serves ages up to and
\* including its 12 h.  Whatever get returns is the stored entry.
C6_Freshness ==
    hist.get_called =>
        /\ hist.get_res = None <=>
              \/ hist.cache0.kind = "absent"
              \/ Unparseable
              \/ IF impl = "basic" THEN ReadAge >= CacheWindowBasic
                 ELSE ReadAge > CacheWindowEnhanced
        /\ hist.get_res # None => hist.get_res = hist.cache0

\* amazon_scraper.py read an entry of its own whose age equals the window.
C6_Witness ==
    /\ hist.get_called
    /\ impl = "basic"
    /\ hist.cache0.kind = "snap"
    /\ hist.cache0.ts_kind = "epoch"
    /\ ReadAge = CacheWindowBasic
    /\ hist.get_res = None

\* The call read the cache after the last completed write of its own module
\* to its key, before the window of that module had passed, the file untouched
\* in between.
ReadAfterPut ==
    /\ hist.get_called
    /\ hist.put = "none"
    /\ hist.last_put.valid
    /\ hist.last_put.key = key
    /\ hist.last_put.impl = impl
    /\ hist.start_at - hist.last_put.at < Window(impl)

\* C7: a get that follows a put on the same key within the freshness window
\* returns the seller_id, seller_name and products that were put.
C7_PutThenGet ==
    ReadAfterPut =>
        /\ hist.get_res.seller_id = hist.last_put.data.seller_id
        /\ hist.get_res.seller_name = hist.last_put.data.seller_name
        /\ hist.get_res.products = hist.last_put.data.products

\* A snapshot with products was read back some time after it was put.
C7_Witness ==
    /\ ReadAfterPut
    /\ hist.start_at > hist.last_put.at
    /\ hist.last_put.data.products # <<>>
    /\ hist.get_res.products = hist.last_put.data.products

\* The entry a call read is corrupt, unreadable or wrongly typed.
DamagedEntry ==
    \/ hist.cache0.kind = "corrupt"
    \/ /\ hist.cache0.kind = "snap"
       /\ \/ hist.cache0.ts_kind # OwnStamp(impl)
          \/ hist.cache0.p_kind # "list"

\* C8: a corrupt, unreadable or wrongly typed cache entry is a cache miss: the
\* scan raises nothing and goes on to the walker as if there were no entry.
C8_DamagedEntryIsMiss ==
    hist.get_called /\ DamagedEntry =>
        /\ hist.get_res = None
        /\ ~hist.caught
        /\ Returned => hist.walked

\* C9: a put stores the clock at the time of the put as the entry's timestamp,
\* whatever timestamp the snapshot handed to it carries.
C9_PutStampsNow ==
    /\ hist.put = "ok" =>
          /\ cache[CachePath(key)].ts = hist.put_at
          /\ cache[CachePath(key)].ts_kind = OwnStamp(impl)
    /\ pc = "store" =>
          \A tk \in {"missing", "epoch", "iso"}, t0 \in 0..now :
              SaveToCache(impl, cache[CachePath(key)],
                          [SnapshotData EXCEPT !.ts_kind = tk, !.ts = t0],
                          now, "ok").ts = now

\* A scan that took time wrote over an older entry.
C9_Witness ==
    /\ hist.put = "ok"
    /\ hist.put_at > hist.start_at
    /\ hist.cache0.kind = "snap"
    /\ hist.cache0.ts < hist.put_at
    /\ cache[CachePath(key)].ts = hist.put_at

PageCeilingOf(i) == IF i = "basic" THEN PageCeiling ELSE BasePages

\* C10: while every fetch of a scan has failed, the scan has made at most
\* variant_count x page_ceiling fetch calls; when it ends it returns the empty
\* product list and raised nothing.
C10_AllFetchesFail ==
    hist.walked /\ hist.ok_fetches = 0 =>
        /\ hist.fetches <= NumVariants * PageCeilingOf(impl)
        /\ Returned => result = <<>> /\ ~hist.caught /\ ~hist.escaped

\* A scan tried every variant, every fetch failed, and it has returned.
C10_Witness ==
    /\ Returned
    /\ hist.walked
    /\ hist.ok_fetches = 0
    /\ hist.fetches > NumVariants
    /\ result = <<>>

\* C11: every scan finishes, whatever the fetches return and the pages hold:
\* a walker that has begun reaches the return of the top-level call.
C11_ScanTerminates == (pc = "walk") ~> (pc = "done")

\* A scan whose every page held products and an enabled next-page control
\* walked every variant to its ceiling and returned.
C11_Witness ==
    /\ Returned
    /\ hist.walked
    /\ hist.ok_fetches = hist.fetches
    /\ hist.fetches >= NumVariants * PageCeilingOf(impl) + 1

\* C20: the page index a walk requests next starts at 1 and stays within the
\* ceiling of its variant: PageCeiling for amazon_scraper.py; for
\* enhanced_amazon_scraper.py BasePages while the variant's count is below the
\* threshold, and BasePages + ExtraPages once it has met it.
C20_PageCeilings ==
    pc = "walk" =>
        /\ page >= 1
        /\ impl = "basic" => page <= PageCeiling
        /\ impl = "enhanced" =>
              /\ page <= BasePages + ExtraPages
              /\ page > BasePages => count >= Threshold

\* A scan is about to request the last of the extra pages of a variant.
C20_Witness ==
    /\ pc = "walk"
    /\ impl = "enhanced"
    /\ phase = "extra"
    /\ page = BasePages + ExtraPages

\* C12: a failed fetch or an exception while a page is processed does not end
\* the scan: a scan whose walker ran raised nothing, went through every
\* variant, and returns every record it had accumulated.
C12_FailureNeverAborts ==
    Returned /\ hist.walked =>
        /\ ~hist.caught
        /\ variant = NumVariants + 1
        /\ hist.first \subseteq Range(result)

\* The step fetches the page of the current variant and gets r.
Fetched(r) == WalkBasic(r) \/ WalkEnhanced(r)

\* After the step the walk is still in the same variant.
SameVariantGoesOn == pc' = "walk" /\ variant' = variant

\* C17: a successfully fetched page from which no product is extracted ends
\* the walk of its variant: no further page of the variant is fetched.
C17_StopsAtZeroProducts ==
    [][ \A r \in FetchOutcomes(AllPages) :
            /\ r.status = "ok"
            /\ RecordsOf(impl, r, seller_name) = <<>>
            /\ Fetched(r)
            => ~SameVariantGoesOn ]_vars

\* C18: the walk goes from page p to page p + 1 of a variant only when page p
\* was fetched and held an enabled next-page control.
C18_NextPageControl ==
    [][ \A r \in FetchOutcomes(AllPages) :
            Fetched(r) /\ SameVariantGoesOn /\ page' = page + 1
            => r.status = "ok" /\ r.next ]_vars

\* C19: a fetched page that carries an invalid-storefront marker ends the walk
\* of its variant and adds no record to the products of the scan.
C19_InvalidStorefront ==
    [][ \A r \in FetchOutcomes(AllPages) :
            r.status = "ok" /\ r.invalid /\ Fetched(r)
            => /\ ~SameVariantGoesOn
               /\ Range(products') \cup Range(page_products')
                      \subseteq Range(products) \cup Range(page_products) ]_vars

\* The clock readings of the model.
Times == ClockStart..(ClockStart + MaxTime)

\* C14 as stated: a scan of the same key begun at any other time requests,
\* at the same point of the same sequence of responses, the same URL.
C14_SameUrlsEveryScan ==
    pc = "walk" =>
        \A t \in Times :
            UrlOf(impl, key, variant, page, t)
                = UrlOf(impl, key, variant, page, hist.start_at)

\* C14 amended: the URLs of two scans of a key at different times agree in
\* format, seller, marketplace and page, in the same order; those of
\* scan_seller_inventory agree in whole, and those of AmazonSellerScraper
\* differ exactly in the qid of the one URL format that carries the clock.
C14_SameUrlsButQid ==
    pc = "walk" =>
        \A t \in Times :
            LET u == UrlOf(impl, key, variant, page, hist.start_at)
                w == UrlOf(impl, key, variant, page, t)
            IN  /\ [w EXCEPT !.base.qid = <<>>] = [u EXCEPT !.base.qid = <<>>]
                /\ w # u <=> impl = "basic" /\ variant = QidVariant /\ t # hist.start_at

\* A later scan of amazon_scraper.py is about to request the URL that carries
\* the clock, which an earlier scan in the same process requested too.
C14_Witness ==
    /\ pc = "walk"
    /\ impl = "basic"
    /\ variant = QidVariant
    /\ hist.start_at > ClockStart
    /\ hist.last_put.valid
    /\ hist.last_put.impl = "basic"
    /\ hist.last_put.at < hist.start_at

\* C13: the cache holds one file per (seller_id, marketplace): a put for key k
\* replaces the file of k by the snapshot put, and no step of a call for k
\* changes the file of another key, so a get for that key returns what it
\* returned before.
C13_OneSnapshotPerKey ==
    [][ /\ hist'.put = "ok" /\ hist.put # "ok" =>
              /\ cache'[CachePath(key)].seller_id = key[1]
              /\ cache'[CachePath(key)].products = products
        /\ \A k \in AllKeys \ {key'} :
              /\ cache'[CachePath(k)] = cache[CachePath(k)]
              /\ \A i \in Impls :
                    GetFromCache(i, cache'[CachePath(k)], now')
                        = GetFromCache(i, cache[CachePath(k)], now) ]_vars

\* A scan has replaced the entry of its key while the same seller has a
\* fresh entry for another marketplace, which differs from the new one.
C13_Witness ==
    /\ Returned
    /\ hist.put = "ok"
    /\ hist.cache0.kind = "snap"
    /\ \E k \in AllKeys \ {key} :
          /\ k[1] = key[1]
          /\ GetFromCache(impl, cache[CachePath(k)], now) # None
          /\ cache[CachePath(k)].products # cache[CachePath(key)].products

\* C16: a fetch call makes at most max_retries HTTP attempts (3 and 5); it
\* returns the response of the first attempt that got status 200 and makes no
\* attempt after it; it returns none only after max_retries attempts none of
\* which got 200; an attempt answered with 503 and retried at once through
\* the next proxy counts like any other.
C16_RetryBudget ==
    /\ Len(statuses) <= MaxRetries(impl)
    /\ \A j \in 1..(Len(statuses) - 1) : statuses[j] # "200"
    /\ response = "200" <=> (statuses # <<>> /\ statuses[Len(statuses)] = "200")
    /\ response = "none" <=>
          (Len(statuses) = MaxRetries(impl) /\ statuses[Len(statuses)] # "200")

\* Every attempt of a call with a proxy pool got 503, each retried at once
\* through the next proxy, and the call returned none.
C16_Witness ==
    /\ impl = "basic"
    /\ use_proxy
    /\ proxies > 0
    /\ response = "none"
    /\ \A j \in 1..Len(statuses) : statuses[j] = "503"

\* C15: when two scans of one key have both finished their cache write, in
\* whatever order their steps ran, the file holds the whole document of one
\* of them.
C15_PutsSerialized ==
    (\A w \in Writers : writers[w].pc = "closed")
        => \E w \in Writers : file = writers[w].doc

\* C21: the URL formats are walked in their order: while a scan walks, a step
\* keeps the variant or moves to the one after it; a step that keeps the
\* variant requests a later page of it (the extra pages follow the base pages),
\* and a step that moves on starts the next variant at its first page, so that
\* no variant is taken up again.
C21_VariantOrder ==
    [][pc = "walk" =>
          /\ variant' \in {variant, variant + 1}
          /\ (variant' = variant /\ pc' = "walk") => page' > page
          /\ variant' = variant + 1 => (page' = 1 /\ phase' = "base")]_vars

\* The last variant is being walked after an earlier one was walked through
\* its extra pages.
C21_Witness ==
    /\ pc = "walk"
    /\ impl = "enhanced"
    /\ variant = NumVariants
    /\ page = 2
    /\ hist.fetches >= 1 + (BasePages + ExtraPages) + 1

\* The records a step adds to the products of the scan.
NewlyFound == Len(products') - Len(products)

\* C22: the count that decides about the extra pages of a variant is the
\* running total of the products the variant newly found: a step of the base
\* pages raises the count by the number of products it adds to the scan, and
\* the step that ends the base pages goes on to the extra pages exactly when
\* that total has reached the threshold.
C22_ThresholdCountsNewProducts ==
    [][\A r \in FetchOutcomes(AllPages) :
          (WalkEnhanced(r) /\ phase = "base" /\ ~ScanRaises(impl, r)) =>
              /\ (variant' = variant /\ phase' = "base") => count' - count = NewlyFound
              /\ (variant' # variant \/ phase' = "extra") =>
                    ((phase' = "extra") <=> (count + NewlyFound >= Threshold))]_vars

\* C23: the seller name resolved before the walk (or the sentinel) is the
\* seller_name of every record a scan returns and of the snapshot it writes.
C23_OneSellerName ==
    (Returned /\ hist.walked /\ ~hist.caught) =>
        /\ seller_name # Missing
        /\ \A r \in Range(result) : r.seller_name = seller_name
        /\ hist.put = "ok" => cache[CachePath(key)].seller_name = seller_name

\* The identifiers with a character that is neither a letter nor a digit.
NotAlphanumeric == {Unhashable, "B00-000_01"}

\* An item identifier of exactly 10 alphanumeric characters.
ValidAsin(a) == Len(a) = 10 /\ a \notin NotAlphanumeric

\* C26: every record a scan returns has an item identifier of exactly 10
\* alphanumeric characters.
C26_ValidAsins ==
    (Returned /\ hist.walked) => \A r \in Range(result) : ValidAsin(r.asin)

\* C28: every record a scan returns has a non-empty title that was read from
\* the page.
C28_TitlesFromPage ==
    (Returned /\ hist.walked) =>
        \A r \in Range(result) : r.title \notin {"", Missing, UnknownTitle}

\* The record was made from the element (a record keeps the element's asin).
MadeFrom(rec, e) == rec.asin = e.asin

\* C29: no element flagged as sponsored produces a record: every record a step
\* adds to the accumulated products was made from an element of the fetched
\* page that is not sponsored.
C29_NoSponsoredRecords ==
    [][\A r \in FetchOutcomes(AllPages) :
          Fetched(r) =>
              \A rec \in (Range(products') \cup Range(page_products'))
                           \ (Range(products) \cup Range(page_products)) :
                  \E j \in 1..Len(r.elems) :
                      ~r.elems[j].sponsored /\ MadeFrom(rec, r.elems[j])]_vars

\* C30 as stated, for the scans that raised nothing: every scan that walked
\* writes its result to the cache, also an empty one.
C30_AlwaysWrites == (Returned /\ hist.walked /\ ~hist.caught) => hist.put # "none"

\* C30: a scan of enhanced_amazon_scraper.py whose walk ran to its end writes
\* its result to the cache whatever it holds, and the write that succeeds
\* replaces the products of the file by the result, also by an empty one; a
\* scan of amazon_scraper.py writes exactly when its result is not empty; a
\* scan that wrote nothing (an empty basic result, or a walk that raised)
\* leaves the file as it was.
C30_WritesOnCompletion ==
    (Returned /\ hist.walked) =>
        /\ (hist.put # "none") <=> (~hist.caught /\ (impl = "enhanced" \/ result # <<>>))
        /\ hist.put = "ok" => cache[CachePath(key)].products = result
        /\ hist.put = "none" => cache[CachePath(key)] = hist.cache0

\* An enhanced scan that found nothing has replaced a snapshot with products by
\* an empty one.
C30_Witness ==
    /\ Returned
    /\ hist.walked
    /\ impl = "enhanced"
    /\ hist.cache0.products # <<>>
    /\ hist.put = "ok"
    /\ result = <<>>
    /\ cache[CachePath(key)].kind = "snap"
    /\ cache[CachePath(key)].products = <<>>

\* The fetch call can swap proxies: it was asked to use one and the pool has some.
HasPool == use_proxy /\ proxies > 0

\* C24: after an attempt answered with 503 the fetch call, with a proxy pool,
\* goes to the next attempt without a backoff sleep; without a pool it sleeps a
\* backoff, and when the attempt before was answered with 503 too, the backoff
\* (its random part set aside) is twice the one slept then.
C24_RateLimitedBackoff ==
    \A j \in 1..Len(statuses) :
        statuses[j] = "503" =>
            IF HasPool THEN sleeps[j] = NoSleep
            ELSE /\ sleeps[j].backoff > 0
                 /\ (j > 1 /\ statuses[j - 1] = "503") =>
                        sleeps[j].backoff = 2 * sleeps[j - 1].backoff

\* The relays of a pool of n, as positions of the pool.
Pool(n) == 0..(n - 1)

\* C25: with a pool of n > 0 proxies current_proxy_index stays within 0..n-1,
\* each call of get_next_proxy returns the proxy after the one the call before
\* returned (the first of the pool after the last), so that any n calls in a
\* row return every proxy of the pool once; with an empty pool every call
\* returns none and the index stays as it was.
C25_RoundRobin ==
    IF proxies > 0
    THEN /\ current_proxy_index \in Pool(proxies)
         /\ \A j \in 1..Len(handed) : handed[j] \in Pool(proxies)
         /\ \A j \in 1..(Len(handed) - 1) : handed[j + 1] = (handed[j] + 1) % proxies
         /\ \A j \in 1..(Len(handed) - proxies + 1) :
                { handed[m] : m \in j..(j + proxies - 1) } = Pool(proxies)
    ELSE /\ current_proxy_index = 0
         /\ \A j \in 1..Len(handed) : handed[j] = NoProxy

\* get_next_proxy has gone around a pool of more than one proxy twice, over
\* more than one fetch call.
C25_Witness ==
    /\ proxies > 1
    /\ Len(handed) >= 2 * proxies
    /\ Len(handed) > MaxRetriesBasic
    /\ current_proxy_index = Len(handed) % proxies

\* The selectors that match anything on the page.
Hits == { n \in 1..Len(soup) : soup[n] # <<>> }

\* The first of them in list order.
FirstHit == CHOOSE n \in Hits : \A m \in Hits : n <= m

\* An element neither implementation rejects.
Acceptable(e) == ValidAsin(e.asin) /\ e.title \notin {"", Missing} /\ ~e.sponsored

\* C27: the extraction of a page uses the elements of the first selector, in
\* list order, that matches anything: every record comes from an element that
\* selector matched, so that an element only a later selector matches gives no
\* record, and whichever selector it is, every element of it that passes the
\* rejection rules gives its record; a page no selector matches gives none.
C27_FirstStrategyOnly ==
    extracted.done =>
        IF Hits = {} THEN extracted.records = <<>>
        ELSE /\ \A rec \in Range(extracted.records) :
                    \E e \in Range(soup[FirstHit]) : MadeFrom(rec, e)
             /\ \A e \in Range(soup[FirstHit]) :
                    Acceptable(e) =>
                        \E rec \in Range(extracted.records) :
                            MadeFrom(rec, e) /\ rec.title = e.title

\* The first selector matched nothing, the second gave the records, and the
\* third matched an element that gave none.
C27_Witness ==
    /\ extracted.done
    /\ soup[1] = <<>>
    /\ soup[2] = <<E1>>
    /\ soup[3] = <<E2>>
    /\ Len(extracted.records) = 1
    /\ extracted.records[1].asin = E1.asin

\* The fetch of the step failed or its page gave no product.
StopsVariant(r) == r.status = "none" \/ RecordsOf(impl, r, seller_name) = <<>>

\* C31: the pages fetched of one variant are 1..k without a gap, and a stopped
\* walk stays stopped: a step that stays in the variant goes to the page after
\* the one it fetched, and it stays only when that fetch succeeded and the
\* page gave products (so the extra pages of enhanced_amazon_scraper.py are
\* entered only from the last base page, fetched and with products).
C31_ContiguousPagesStopTerminal ==
    [][ \A r \in FetchOutcomes(AllPages) :
            Fetched(r) /\ SameVariantGoesOn
            => /\ page' = page + 1
               /\ ~StopsVariant(r) ]_vars

\* The other of the two modules.
Other(i) == IF i = "basic" THEN "enhanced" ELSE "basic"

\* The file the call found holds a snapshot stamped by the other module.
FoundOthersEntry ==
    /\ hist.cache0.kind = "snap"
    /\ hist.cache0.ts_kind = OwnStamp(Other(impl))

\* C32: the two modules keep one file per key and stamp it each in its own
\* way: a get that finds an entry stamped by the other module reports a miss,
\* no exception leaves the call and the walker runs; a put that succeeds over
\* the other module's entry replaces it, stamp and products, by the caller's.
C32_CrossCacheMissAndOverwrite ==
    /\ (hist.get_called /\ FoundOthersEntry) =>
          /\ hist.get_res = None
          /\ ~hist.escaped
          /\ Returned => hist.walked
    /\ (hist.put = "ok" /\ FoundOthersEntry) =>
          /\ cache[CachePath(key)].ts_kind = OwnStamp(impl)
          /\ cache[CachePath(key)].products = result
          /\ hist.last_put.impl = impl

\* A scan without force_refresh found the other module's snapshot, written at
\* that very time and holding products, walked, and wrote its own over it.
C32_Witness ==
    /\ Returned
    /\ hist.get_called
    /\ FoundOthersEntry
    /\ hist.cache0.p_kind = "list"
    /\ hist.cache0.products # <<>>
    /\ hist.cache0.ts = hist.start_at
    /\ hist.walked
    /\ hist.put = "ok"
    /\ cache[CachePath(key)].ts_kind = OwnStamp(impl)
    /\ cache[CachePath(key)].products # hist.cache0.products
====
